---- MODULE Spec2Model ----
(***************************************************************************)
(* Model of the three browser verification scripts of verification/:       *)
(*   verify_activity.py       (scenario "activity")                        *)
(*   verify_context_menu.py   (scenario "menu")                            *)
(*   verify_window_center.py  (scenario "center")                          *)
(* Each script is one sequential flow; pc is the statement about to run.   *)
(* Every driver call may succeed or raise; the application under test      *)
(* decides whether an element is visible and whether a right-click opens   *)
(* the context menu.  Both are nondeterministic inputs.                    *)
(*                                                                         *)
(* Coordinates are fixed-point numbers in half pixels (a box at 242px is   *)
(* stored as 484), so that (width - 800) / 2 is exact for odd widths too.  *)
(* Viewport sizes are whole pixels.                                        *)
(***************************************************************************)
EXTENDS Integers, Sequences, FiniteSets

VARIABLES
    scen,          \* which script runs
    pc,            \* statement about to run, "done" or "escaped"
    launched,      \* p.chromium.launch() returned a browser
    closed,        \* browser.close() was called
    localStorage,  \* storage keys set on the application's origin
    initScript,    \* an init script that seeds the storage is installed
    navs,          \* page loads: the url and the storage the app scripts saw
    menuOpen,      \* the desktop context menu is showing
    observed,      \* per region, what the visibility query returned
    evaluated,     \* expect(...) assertions of verify_activity evaluated
    out,           \* lines printed, as [m |-> marker, s |-> subject]
    shots,         \* screenshot files written
    errShot,       \* page.screenshot(path="verification/error.png") was called
    raisedAt,      \* pc of the first statement whose exception left its block
    pending,       \* an exception raised in the except block is propagating
    box,           \* window_element.bounding_box()
    viewport       \* viewport of the page

vars == <<scen, pc, launched, closed, localStorage, initScript, navs, menuOpen,
          observed, evaluated, out, shots, errShot, raisedAt,
          pending, box, viewport>>

----------------------------------------------------------------------------
(* Bounds of the input space *)

Span == 16
MaxTol == 7

(* Program constants *)

WindowWidth == 800
WindowHeight == 600
Tolerance == 5
ViewportWidth == 1280
ViewportHeight == 800

Scenarios == {"activity", "menu", "center"}
Regions == {"background", "menubar", "icon", "dock"}
SeedKeys == {"auth_token", "user"}
Terminal == {"done", "escaped"}

NoBox == [none |-> TRUE]
NoViewport == [none |-> TRUE]

Px(n) == 2 * n
Abs(n) == IF n < 0 THEN -n ELSE n

Line(marker, subject) == [m |-> marker, s |-> subject]
Emit(marker, subject) == out' = Append(out, Line(marker, subject))

Ok(next) == pc' = next /\ UNCHANGED raisedAt
\* an exception leaves the statement at pc and transfers control to handler
Raise(handler) ==
    /\ pc' = handler
    /\ raisedAt' = IF raisedAt = "none" THEN pc ELSE raisedAt

\* a navigation that succeeds runs the application's scripts; an installed
\* init script runs before them
Load(url) ==
    LET seen == IF initScript THEN localStorage \cup SeedKeys ELSE localStorage
    IN /\ navs' = Append(navs, [url |-> url, storage |-> seen])
       /\ localStorage' = seen

----------------------------------------------------------------------------
(* verify_activity.py *)

Activity_launch ==
    /\ scen = "activity" /\ pc = "launch"
    /\ \E ok \in BOOLEAN :
         IF ok THEN launched' = TRUE /\ Ok("a_new_page")
               ELSE UNCHANGED launched /\ Raise("escaped")
    /\ UNCHANGED <<scen, closed, localStorage, initScript, navs, menuOpen,
                   observed, evaluated, out, shots, errShot,
                   pending, box, viewport>>

\* browser.new_context(); context.new_page()
Activity_new_page ==
    /\ scen = "activity" /\ pc = "a_new_page"
    /\ \E ok \in BOOLEAN :
         IF ok THEN Ok("a_add_init_script") ELSE Raise("escaped")
    /\ UNCHANGED <<scen, launched, closed, localStorage, initScript, navs,
                   menuOpen, observed, evaluated, out, shots,
                   errShot, pending, box, viewport>>

Activity_add_init_script ==
    /\ scen = "activity" /\ pc = "a_add_init_script"
    /\ \E ok \in BOOLEAN :
         IF ok THEN initScript' = TRUE /\ Ok("a_goto")
               ELSE UNCHANGED initScript /\ Raise("escaped")
    /\ UNCHANGED <<scen, launched, closed, localStorage, navs, menuOpen,
                   observed, evaluated, out, shots, errShot,
                   pending, box, viewport>>

Activity_goto ==
    /\ scen = "activity" /\ pc = "a_goto"
    /\ \E ok \in BOOLEAN :
         IF ok THEN Load("/desktop") /\ Ok("a_expect_desktop")
               ELSE UNCHANGED <<navs, localStorage>> /\ Raise("a_except")
    /\ UNCHANGED <<scen, launched, closed, initScript, menuOpen, observed,
                   evaluated, out, shots, errShot, pending, box,
                   viewport>>

\* expect(locator).to_be_visible(): raises AssertionError when not visible
Expect(here, name, next) ==
    /\ scen = "activity" /\ pc = here
    /\ evaluated' = evaluated \cup {name}
    /\ \E visible \in BOOLEAN :
         IF visible THEN Ok(next) ELSE Raise("a_except")
    /\ UNCHANGED <<scen, launched, closed, localStorage, initScript, navs,
                   menuOpen, observed, out, shots, errShot,
                   pending, box, viewport>>

Activity_expect_desktop ==
    Expect("a_expect_desktop", "Mynt NAS", "a_expect_icon")

Activity_expect_icon ==
    Expect("a_expect_icon", "Activity Monitor icon", "a_click")

Activity_click ==
    /\ scen = "activity" /\ pc = "a_click"
    /\ \E ok \in BOOLEAN :
         IF ok THEN Ok("a_expect_window") ELSE Raise("a_except")
    /\ UNCHANGED <<scen, launched, closed, localStorage, initScript, navs,
                   menuOpen, observed, evaluated, out, shots,
                   errShot, pending, box, viewport>>

Activity_expect_window ==
    Expect("a_expect_window", "Activity Monitor title", "a_expect_cpu")

Activity_expect_cpu ==
    Expect("a_expect_cpu", "CPU", "a_expect_memory")

Activity_expect_memory ==
    Expect("a_expect_memory", "Memory", "a_expect_process_name")

Activity_expect_process_name ==
    Expect("a_expect_process_name", "Process Name", "a_expect_pct_cpu")

Activity_expect_pct_cpu ==
    Expect("a_expect_pct_cpu", "% CPU", "a_screenshot")

Activity_screenshot ==
    /\ scen = "activity" /\ pc = "a_screenshot"
    /\ \E ok \in BOOLEAN :
         IF ok THEN /\ shots' = shots \cup {"activity_monitor.png"}
                    /\ Emit("INFO", "Screenshot captured")
                    /\ Ok("a_finally")
               ELSE UNCHANGED <<shots, out>> /\ Raise("a_except")
    /\ UNCHANGED <<scen, launched, closed, localStorage, initScript, navs,
                   menuOpen, observed, evaluated, errShot,
                   pending, box, viewport>>

\* the except block shared by the three scripts: print the error, then
\* screenshot the error state; a failing screenshot raises out of the block
ExceptBlock(here, finally) ==
    /\ pc = here
    /\ Emit("ERROR", "Error")
    /\ errShot' = TRUE
    /\ \E ok \in BOOLEAN :
         /\ shots' = IF ok THEN shots \cup {"error.png"} ELSE shots
         /\ pending' = ~ok
    /\ Ok(finally)
    /\ UNCHANGED <<scen, launched, closed, localStorage, initScript, navs,
                   menuOpen, observed, evaluated, box, viewport>>

\* the finally block shared by the three scripts
FinallyBlock(here) ==
    /\ pc = here
    /\ closed' = TRUE
    /\ Ok(IF pending THEN "escaped" ELSE "done")
    /\ UNCHANGED <<scen, launched, localStorage, initScript, navs, menuOpen,
                   observed, evaluated, out, shots, errShot,
                   pending, box, viewport>>

Activity_except == scen = "activity" /\ ExceptBlock("a_except", "a_finally")

Activity_finally == scen = "activity" /\ FinallyBlock("a_finally")

----------------------------------------------------------------------------
(* verify_context_menu.py *)

Menu_launch ==
    /\ scen = "menu" /\ pc = "launch"
    /\ \E ok \in BOOLEAN :
         IF ok THEN launched' = TRUE /\ Ok("m_new_page")
               ELSE UNCHANGED launched /\ Raise("escaped")
    /\ UNCHANGED <<scen, closed, localStorage, initScript, navs, menuOpen,
                   observed, evaluated, out, shots, errShot,
                   pending, box, viewport>>

\* browser.new_context(viewport=...); context.new_page()
Menu_new_page ==
    /\ scen = "menu" /\ pc = "m_new_page"
    /\ \E ok \in BOOLEAN :
         IF ok THEN /\ viewport' = [width |-> ViewportWidth,
                                    height |-> ViewportHeight]
                    /\ Ok("m_goto_origin")
               ELSE UNCHANGED viewport /\ Raise("escaped")
    /\ UNCHANGED <<scen, launched, closed, localStorage, initScript, navs,
                   menuOpen, observed, evaluated, out, shots,
                   errShot, pending, box>>

\* page.goto("http://localhost:5173/"), before the try block
Menu_goto_origin ==
    /\ scen = "menu" /\ pc = "m_goto_origin"
    /\ \E ok \in BOOLEAN :
         IF ok THEN Load("/") /\ Ok("m_evaluate")
               ELSE UNCHANGED <<navs, localStorage>> /\ Raise("escaped")
    /\ UNCHANGED <<scen, launched, closed, initScript, menuOpen, observed,
                   evaluated, out, shots, errShot, pending, box,
                   viewport>>

\* page.evaluate(localStorage.setItem ...), before the try block
Menu_evaluate ==
    /\ scen = "menu" /\ pc = "m_evaluate"
    /\ \E ok \in BOOLEAN :
         IF ok THEN localStorage' = localStorage \cup SeedKeys /\ Ok("m_goto_desktop")
               ELSE UNCHANGED localStorage /\ Raise("escaped")
    /\ UNCHANGED <<scen, launched, closed, initScript, navs, menuOpen,
                   observed, evaluated, out, shots, errShot,
                   pending, box, viewport>>

Menu_goto_desktop ==
    /\ scen = "menu" /\ pc = "m_goto_desktop"
    /\ \E ok \in BOOLEAN :
         IF ok THEN Load("/desktop") /\ Ok("m_wait_menubar")
               ELSE UNCHANGED <<navs, localStorage>> /\ Raise("m_except")
    /\ UNCHANGED <<scen, launched, closed, initScript, menuOpen, observed,
                   evaluated, out, shots, errShot, pending, box,
                   viewport>>

Menu_wait_menubar ==
    /\ scen = "menu" /\ pc = "m_wait_menubar"
    /\ \E ok \in BOOLEAN :
         IF ok THEN Emit("INFO", "Desktop loaded") /\ Ok("m_bg_right_click")
               ELSE UNCHANGED out /\ Raise("m_except")
    /\ UNCHANGED <<scen, launched, closed, localStorage, initScript, navs,
                   menuOpen, observed, evaluated, shots, errShot,
                   pending, box, viewport>>

\* a secondary click on a region: the application opens the menu or not
RightClick(here, next) ==
    /\ scen = "menu" /\ pc = here
    /\ \E ok \in BOOLEAN :
         IF ok THEN (\E shown \in BOOLEAN : menuOpen' = shown) /\ Ok(next)
               ELSE UNCHANGED menuOpen /\ Raise("m_except")
    /\ UNCHANGED <<scen, launched, closed, localStorage, initScript, navs,
                   observed, evaluated, out, shots, errShot,
                   pending, box, viewport>>

\* what a visibility query on "text=Change Wallpaper" can return
Query == {IF menuOpen THEN "visible" ELSE "hidden", "error"}

\* page.mouse.move(500, 500); down(button="right"); up(button="right")
Menu_bg_right_click == RightClick("m_bg_right_click", "m_bg_check")

\* try: wait_for_selector(..., timeout=2000) ... except: FAILURE
Menu_bg_check ==
    /\ scen = "menu" /\ pc = "m_bg_check"
    /\ \E q \in Query :
         /\ observed' = [observed EXCEPT !["background"] = q]
         /\ IF q = "visible" THEN Emit("SUCCESS", "background")
                             ELSE Emit("FAILURE", "background")
    /\ Ok("m_bg_screenshot")
    /\ UNCHANGED <<scen, launched, closed, localStorage, initScript, navs,
                   menuOpen, evaluated, shots, errShot, pending,
                   box, viewport>>

Menu_bg_screenshot ==
    /\ scen = "menu" /\ pc = "m_bg_screenshot"
    /\ \E ok \in BOOLEAN :
         IF ok THEN /\ shots' = shots \cup {"desktop_context_menu.png"}
                    /\ Ok("m_bg_dismiss")
               ELSE UNCHANGED shots /\ Raise("m_except")
    /\ UNCHANGED <<scen, launched, closed, localStorage, initScript, navs,
                   menuOpen, observed, evaluated, out, errShot,
                   pending, box, viewport>>

\* page.mouse.click(500, 500); page.wait_for_timeout(500)
Menu_bg_dismiss ==
    /\ scen = "menu" /\ pc = "m_bg_dismiss"
    /\ \E ok \in BOOLEAN :
         IF ok THEN /\ menuOpen' = FALSE
                    /\ Ok("m_bar_right_click")
               ELSE UNCHANGED menuOpen /\ Raise("m_except")
    /\ UNCHANGED <<scen, launched, closed, localStorage, initScript, navs,
                   observed, evaluated, out, shots, errShot, pending, box,
                   viewport>>

\* try: if is_visible(): FAILURE else: SUCCESS except: SUCCESS (exception)
NegativeCheck(here, region, next) ==
    /\ scen = "menu" /\ pc = here
    /\ \E q \in Query :
         /\ observed' = [observed EXCEPT ![region] = q]
         /\ IF q = "visible" THEN Emit("FAILURE", region)
                             ELSE Emit("SUCCESS", region)
    /\ Ok(next)
    /\ UNCHANGED <<scen, launched, closed, localStorage, initScript, navs,
                   menuOpen, evaluated, shots, errShot, pending,
                   box, viewport>>

\* if locator.count() > 0: ... else: print("WARNING: ...")
CountGuard(here, region, found, missing) ==
    /\ scen = "menu" /\ pc = here
    /\ \E r \in {"found", "missing", "raise"} :
         CASE r = "found"   -> UNCHANGED <<out, observed>> /\ Ok(found)
           [] r = "missing" -> /\ Emit("WARNING", region)
                               /\ observed' = [observed EXCEPT ![region] = "missing"]
                               /\ Ok(missing)
           [] r = "raise"   -> UNCHANGED <<out, observed>> /\ Raise("m_except")
    /\ UNCHANGED <<scen, launched, closed, localStorage, initScript, navs,
                   menuOpen, evaluated, shots, errShot, pending,
                   box, viewport>>

\* menubar = page.locator(".desktop-menubar"); menubar.click(button="right")
Menu_bar_right_click == RightClick("m_bar_right_click", "m_bar_check")

Menu_bar_check == NegativeCheck("m_bar_check", "menubar", "m_icon_count")

Menu_icon_count ==
    CountGuard("m_icon_count", "icon", "m_icon_right_click", "m_dock_count")

Menu_icon_right_click == RightClick("m_icon_right_click", "m_icon_check")

Menu_icon_check == NegativeCheck("m_icon_check", "icon", "m_dock_count")

Menu_dock_count ==
    CountGuard("m_dock_count", "dock", "m_dock_right_click", "m_final_screenshot")

Menu_dock_right_click == RightClick("m_dock_right_click", "m_dock_check")

Menu_dock_check == NegativeCheck("m_dock_check", "dock", "m_final_screenshot")

Menu_final_screenshot ==
    /\ scen = "menu" /\ pc = "m_final_screenshot"
    /\ \E ok \in BOOLEAN :
         IF ok THEN /\ shots' = shots \cup {"no_context_menu.png"}
                    /\ Ok("m_finally")
               ELSE UNCHANGED shots /\ Raise("m_except")
    /\ UNCHANGED <<scen, launched, closed, localStorage, initScript, navs,
                   menuOpen, observed, evaluated, out, errShot,
                   pending, box, viewport>>

Menu_except == scen = "menu" /\ ExceptBlock("m_except", "m_finally")

Menu_finally == scen = "menu" /\ FinallyBlock("m_finally")

----------------------------------------------------------------------------
(* verify_window_center.py *)

Box(px, py) == [x |-> Px(px), y |-> Px(py)]

\* variant: the tolerance bound is inclusive
boundingBoxWithin_inclusive(b, vp, tol) ==
    LET expected_x == vp.width - WindowWidth
        expected_y == vp.height - WindowHeight
    IN Abs(b.x - expected_x) <= Px(tol) /\ Abs(b.y - expected_y) <= Px(tol)

\* variant: the expected position is the middle of the viewport
boundingBoxWithin_viewportMiddle(b, vp, tol) ==
    LET expected_x == vp.width
        expected_y == vp.height
    IN Abs(b.x - expected_x) < Px(tol) /\ Abs(b.y - expected_y) < Px(tol)

\* abs(box['x'] - expected_x) < tol and abs(box['y'] - expected_y) < tol,
\* with expected_x = (viewport['width'] - 800) / 2, in half pixels
boundingBoxWithin(b, vp, tol) ==
    LET expected_x == vp.width - WindowWidth
        expected_y == vp.height - WindowHeight
    IN Abs(b.x - expected_x) < Px(tol) /\ Abs(b.y - expected_y) < Px(tol)

\* the lines verify_window_centering prints for a box and a viewport
CenteringReport(b, vp) ==
    IF b # NoBox /\ vp # NoViewport
    THEN << Line("INFO", "Window Box"), Line("INFO", "Viewport"),
            Line("INFO", "Expected"),
            IF boundingBoxWithin(b, vp, Tolerance)
            THEN Line("SUCCESS", "center") ELSE Line("FAILURE", "center") >>
    ELSE << >>

\* boxes the engine reports in a run of the script
MainBoxes == {NoBox, Box(240, 100), Box(242, 98), Box(245, 100), Box(260, 100)}

Center_launch ==
    /\ scen = "center" /\ pc = "launch"
    /\ \E ok \in BOOLEAN :
         IF ok THEN launched' = TRUE /\ Ok("c_new_page")
               ELSE UNCHANGED launched /\ Raise("escaped")
    /\ UNCHANGED <<scen, closed, localStorage, initScript, navs, menuOpen,
                   observed, evaluated, out, shots, errShot,
                   pending, box, viewport>>

\* browser.new_page(viewport={"width": 1280, "height": 800})
Center_new_page ==
    /\ scen = "center" /\ pc = "c_new_page"
    /\ \E ok \in BOOLEAN :
         IF ok THEN /\ viewport' = [width |-> ViewportWidth,
                                    height |-> ViewportHeight]
                    /\ Ok("c_goto_login")
               ELSE UNCHANGED viewport /\ Raise("escaped")
    /\ UNCHANGED <<scen, launched, closed, localStorage, initScript, navs,
                   menuOpen, observed, evaluated, out, shots,
                   errShot, pending, box>>

Center_goto_login ==
    /\ scen = "center" /\ pc = "c_goto_login"
    /\ \E ok \in BOOLEAN :
         IF ok THEN Load("/login") /\ Ok("c_evaluate")
               ELSE UNCHANGED <<navs, localStorage>> /\ Raise("c_except")
    /\ UNCHANGED <<scen, launched, closed, initScript, menuOpen, observed,
                   evaluated, out, shots, errShot, pending, box,
                   viewport>>

Center_evaluate ==
    /\ scen = "center" /\ pc = "c_evaluate"
    /\ \E ok \in BOOLEAN :
         IF ok THEN localStorage' = localStorage \cup SeedKeys /\ Ok("c_goto_desktop")
               ELSE UNCHANGED localStorage /\ Raise("c_except")
    /\ UNCHANGED <<scen, launched, closed, initScript, navs, menuOpen,
                   observed, evaluated, out, shots, errShot,
                   pending, box, viewport>>

Center_goto_desktop ==
    /\ scen = "center" /\ pc = "c_goto_desktop"
    /\ \E ok \in BOOLEAN :
         IF ok THEN Load("/desktop") /\ Ok("c_wait_icon")
               ELSE UNCHANGED <<navs, localStorage>> /\ Raise("c_except")
    /\ UNCHANGED <<scen, launched, closed, initScript, menuOpen, observed,
                   evaluated, out, shots, errShot, pending, box,
                   viewport>>

\* a driver call of verify_window_centering with no effect on the model's state
CenterStep(here, next) ==
    /\ scen = "center" /\ pc = here
    /\ \E ok \in BOOLEAN : IF ok THEN Ok(next) ELSE Raise("c_except")
    /\ UNCHANGED <<scen, launched, closed, localStorage, initScript, navs,
                   menuOpen, observed, evaluated, out, shots,
                   errShot, pending, box, viewport>>

Center_wait_icon == CenterStep("c_wait_icon", "c_click_settings")

Center_click_settings == CenterStep("c_click_settings", "c_wait_window")

Center_wait_window == CenterStep("c_wait_window", "c_screenshot")

Center_screenshot ==
    /\ scen = "center" /\ pc = "c_screenshot"
    /\ \E ok \in BOOLEAN :
         IF ok THEN /\ shots' = shots \cup {"verification.png"}
                    /\ Ok("c_bounding_box")
               ELSE UNCHANGED shots /\ Raise("c_except")
    /\ UNCHANGED <<scen, launched, closed, localStorage, initScript, navs,
                   menuOpen, observed, evaluated, out, errShot,
                   pending, box, viewport>>

\* box = window_element.bounding_box(); viewport = page.viewport_size
Center_bounding_box ==
    /\ scen = "center" /\ pc = "c_bounding_box"
    /\ \E ok \in BOOLEAN :
         IF ok THEN (\E b \in MainBoxes : box' = b) /\ Ok("c_check")
               ELSE UNCHANGED box /\ Raise("c_except")
    /\ UNCHANGED <<scen, launched, closed, localStorage, initScript, navs,
                   menuOpen, observed, evaluated, out, shots,
                   errShot, pending, viewport>>

\* if box and viewport: ... print verdict
Center_check ==
    /\ scen = "center" /\ pc = "c_check"
    /\ out' = out \o CenteringReport(box, viewport)
    /\ Ok("c_finally")
    /\ UNCHANGED <<scen, launched, closed, localStorage, initScript, navs,
                   menuOpen, observed, evaluated, shots, errShot,
                   pending, box, viewport>>

Center_except == scen = "center" /\ ExceptBlock("c_except", "c_finally")

Center_finally == scen = "center" /\ FinallyBlock("c_finally")

----------------------------------------------------------------------------
(* The scripts, each run from its entry point *)

Init ==
    /\ scen \in Scenarios
    /\ pc = "launch"
    /\ launched = FALSE
    /\ closed = FALSE
    /\ localStorage = {}
    /\ initScript = FALSE
    /\ navs = << >>
    /\ menuOpen = FALSE
    /\ observed = [r \in Regions |-> "none"]
    /\ evaluated = {}
    /\ out = << >>
    /\ shots = {}
    /\ errShot = FALSE
    /\ raisedAt = "none"
    /\ pending = FALSE
    /\ box = NoBox
    /\ viewport = NoViewport

Next ==
    \/ Activity_launch
    \/ Activity_new_page
    \/ Activity_add_init_script
    \/ Activity_goto
    \/ Activity_expect_desktop
    \/ Activity_expect_icon
    \/ Activity_click
    \/ Activity_expect_window
    \/ Activity_expect_cpu
    \/ Activity_expect_memory
    \/ Activity_expect_process_name
    \/ Activity_expect_pct_cpu
    \/ Activity_screenshot
    \/ Activity_except
    \/ Activity_finally
    \/ Menu_launch
    \/ Menu_new_page
    \/ Menu_goto_origin
    \/ Menu_evaluate
    \/ Menu_goto_desktop
    \/ Menu_wait_menubar
    \/ Menu_bg_right_click
    \/ Menu_bg_check
    \/ Menu_bg_screenshot
    \/ Menu_bg_dismiss
    \/ Menu_bar_right_click
    \/ Menu_bar_check
    \/ Menu_icon_count
    \/ Menu_icon_right_click
    \/ Menu_icon_check
    \/ Menu_dock_count
    \/ Menu_dock_right_click
    \/ Menu_dock_check
    \/ Menu_final_screenshot
    \/ Menu_except
    \/ Menu_finally
    \/ Center_launch
    \/ Center_new_page
    \/ Center_goto_login
    \/ Center_evaluate
    \/ Center_goto_desktop
    \/ Center_wait_icon
    \/ Center_click_settings
    \/ Center_wait_window
    \/ Center_screenshot
    \/ Center_bounding_box
    \/ Center_check
    \/ Center_except
    \/ Center_finally

Spec == Init /\ [][Next]_vars

----------------------------------------------------------------------------
(* verify_window_centering(page) as a function of the page it is handed:  *)
(* it starts where the box and the viewport have been read (line 42) and  *)
(* draws both from a bounded set around the centered position.            *)

GeomViewports ==
    { [width |-> w, height |-> h] :
        w \in ViewportWidth .. ViewportWidth + 1,
        h \in ViewportHeight .. ViewportHeight + 1 }

GeomBoxes ==
    { [x |-> bx, y |-> by] :
        bx \in (ViewportWidth - WindowWidth - Span) ..
               (ViewportWidth + 1 - WindowWidth + Span),
        by \in (ViewportHeight - WindowHeight - Span) ..
               (ViewportHeight + 1 - WindowHeight + Span) }
    \cup {Box(260, 100), NoBox}

InitGeom ==
    /\ scen = "center"
    /\ pc = "c_check"
    /\ launched = TRUE
    /\ closed = FALSE
    /\ localStorage = SeedKeys
    /\ initScript = FALSE
    /\ navs = << [url |-> "/login", storage |-> {}],
                 [url |-> "/desktop", storage |-> SeedKeys] >>
    /\ menuOpen = FALSE
    /\ observed = [r \in Regions |-> "none"]
    /\ evaluated = {}
    /\ out = << >>
    /\ shots = {"verification.png"}
    /\ errShot = FALSE
    /\ raisedAt = "none"
    /\ pending = FALSE
    /\ box \in GeomBoxes
    /\ viewport \in GeomViewports

NextGeom ==
    \/ Center_check
    \/ Center_finally

SpecGeom == InitGeom /\ [][NextGeom]_vars

----------------------------------------------------------------------------
(* Properties *)

Printed == {out[i] : i \in DOMAIN out}

\* C1: once the browser is launched, every listed exit path (normal
\* completion, a failed navigation including the seeding navigation of
\* verify_context_menu, a failed readiness wait, a failed interaction)
\* reaches browser.close(): no terminal state has the browser launched and
\* not closed.
C1_ClosedOnEveryExit ==
    LET listed == {"none",
                   "a_goto", "m_goto_origin", "m_goto_desktop",
                   "c_goto_login", "c_goto_desktop",
                   "a_expect_desktop", "a_expect_icon", "a_expect_window",
                   "m_wait_menubar", "c_wait_icon", "c_wait_window",
                   "a_click", "m_bg_right_click", "m_bg_dismiss",
                   "m_bar_right_click", "m_icon_right_click",
                   "m_dock_right_click", "c_click_settings"}
    IN (pc \in Terminal /\ launched /\ raisedAt \in listed) => closed

\* C2: whenever a step performed after the page is created raises, the
\* error-state screenshot is attempted, and before browser.close(): no run
\* ends, and no browser is closed, after such an error without the attempt.
C2_ErrorShotBeforeClose ==
    LET beforePage == {"none", "launch", "a_new_page", "m_new_page", "c_new_page"}
    IN raisedAt \notin beforePage =>
         /\ pc \in Terminal => errShot
         /\ closed => errShot

\* C3: every probe of the region matrix is followed by a neutralizing
\* primary click, so the context menu is not open when the next probe
\* begins, nor at the final screenshot.
C3_MenuClosedBetweenProbes ==
    pc \in {"m_bar_right_click", "m_icon_count", "m_dock_count",
            "m_final_screenshot"} => ~menuOpen

\* C4: a run of the region matrix that got past the desktop readiness wait
\* ends with exactly one SUCCESS or FAILURE record for each of the four
\* regions.
C4_EveryProbeReports ==
    (scen = "menu" /\ pc \in Terminal /\ Line("INFO", "Desktop loaded") \in Printed)
      => \A r \in Regions :
           Cardinality({i \in DOMAIN out :
                          out[i] \in {Line("SUCCESS", r), Line("FAILURE", r)}}) = 1

\* C5: for an 800x600 window and tolerance 5 the centering check prints
\* SUCCESS iff the box lies strictly within 5px of ((w-800)/2, (h-600)/2) on
\* both axes and FAILURE otherwise; with viewport 1280x800, (242, 98) passes
\* and (260, 100) fails.
C5_CenteringVerdict ==
    (scen = "center" /\ pc \in {"c_finally", "done"} /\ raisedAt = "none"
       /\ box # NoBox /\ viewport # NoViewport)
      => LET ex == viewport.width - 800
             ey == viewport.height - 600
             near == /\ ex - 10 < box.x /\ box.x < ex + 10
                     /\ ey - 10 < box.y /\ box.y < ey + 10
             verdicts == {l \in Printed : l.m \in {"SUCCESS", "FAILURE"}}
         IN /\ verdicts = IF near THEN {Line("SUCCESS", "center")}
                                  ELSE {Line("FAILURE", "center")}
            /\ (viewport = [width |-> 1280, height |-> 800]
                  /\ box \in {Box(240, 100), Box(242, 98)})
                 => Line("SUCCESS", "center") \in Printed
            /\ (viewport = [width |-> 1280, height |-> 800]
                  /\ box = Box(260, 100))
                 => Line("FAILURE", "center") \in Printed

C5_Witness ==
    /\ scen = "center" /\ pc = "done"
    /\ viewport = [width |-> 1280, height |-> 800]
    /\ box = Box(242, 98)
    /\ Line("SUCCESS", "center") \in Printed

C7_SeededBeforeAppScripts ==
    \A i \in DOMAIN navs : SeedKeys \subseteq navs[i].storage

\* C8: a run in which a check could not be evaluated (the bounding box or
\* the viewport is unavailable, a menu-visibility query raises) ends with a
\* FAILURE or ERROR line printed and a screenshot saved, never with only
\* SUCCESS lines or no verdict line.
C8_NoSilentPass ==
    LET unevaluated ==
          \/ scen = "center" /\ pc = "done" /\ raisedAt = "none"
               /\ (box = NoBox \/ viewport = NoViewport)
          \/ \E r \in Regions : observed[r] = "error"
    IN (pc \in Terminal /\ unevaluated)
         => /\ \E l \in Printed : l.m \in {"FAILURE", "ERROR"}
            /\ shots # {}

\* C9: in the activity-monitor scenario an assertion that does not hold is
\* a soft failure: once the CPU tab assertion has been evaluated, the
\* Memory tab and the two table header assertions are evaluated too before
\* the run ends.
C9_SoftAssertions ==
    (scen = "activity" /\ pc \in Terminal /\ "CPU" \in evaluated)
      => {"Memory", "Process Name", "% CPU"} \subseteq evaluated

\* C10: a region probe reports SUCCESS iff the observed visibility of the
\* context menu equals the expected one (visible on the desktop background
\* only); a probe whose visibility could not be observed never reports
\* SUCCESS.
C10_VerdictMatchesObservation ==
    \A r \in Regions :
      LET expected == IF r = "background" THEN "visible" ELSE "hidden"
      IN /\ Line("SUCCESS", r) \in Printed => observed[r] = expected
         /\ Line("FAILURE", r) \in Printed => observed[r] # expected

====
